---- MODULE Spec2Model ----
(***************************************************************************)
(* Model of the text-to-SQL prompting pipeline:                            *)
(*   interactive_request.py : execute_and_compare, auto_feedback,          *)
(*                            interactive_loop                             *)
(*   gpt_request.py         : get_foreign_keys, build_table_prompt,        *)
(*                            connect_gpt (backoff policy),                *)
(*                            collect_response_from_gpt                    *)
(* Text is modelled as a sequence of chunks.  A chunk is a single          *)
(* character where the code works on characters (batch normalisation) and  *)
(* a lexical unit where it only tests for keywords (auto_feedback).        *)
(***************************************************************************)
EXTENDS Integers, Sequences, FiniteSets, TLC

VARIABLES
    \* ---- interactive_loop --------------------------------------------
    pc,               \* "idle" | "drafting" | "feedback" | "done" | "crashed"
    max_iter,         \* argument max_iter
    gold_sql,         \* argument gold_sql (text)
    gold_exec,        \* what the database answers when gold_sql is executed
    pred_exec,        \* what the database answered to the latest pred_sql
    step,             \* loop variable of  for step in range(max_iter)
    pred_sql,         \* local pred_sql
    message,          \* local message
    same,             \* local same
    feedback_history, \* local feedback_history
    result,           \* the returned record, NoResult before the return
    terminal,         \* "none" | "Matched" | "Exhausted"
    llm_calls,        \* number of call_llm invocations
    exec_calls,       \* number of execute_and_compare invocations
    asked,            \* number of times the feedback prompt was shown
    conns,            \* database connections opened and not closed
    trace,            \* one entry per executed step: message and verdict
    \* ---- execute_and_compare on its own ------------------------------
    c_pred, c_gold, c_out,
    \* ---- auto_feedback on its own ------------------------------------
    f_pred, f_gold, f_out,
    \* ---- collect_response_from_gpt / connect_gpt ---------------------
    bpc,              \* "idle" | "item" | "calling" | "done" | "aborted"
    db_path_list,     \* argument db_path_list
    i,                \* loop index of the batch
    tries,            \* attempts made by the running connect_gpt call
    attempts,         \* outcomes of the attempts of the running/last connect_gpt call
    waits,            \* pauses taken by the running/last connect_gpt call
    calls,            \* how each finished connect_gpt call ended, one per item
    responses,        \* list responses
    log,              \* entries written to the audit log
    \* ---- get_foreign_keys / build_table_prompt -----------------------
    spc,              \* "idle" | "ready" | "built"
    columns_info,     \* rows of PRAGMA table_info
    table_desc_map,   \* descriptions of the table's columns, by lower-cased name
    fk_info,          \* rows of PRAGMA foreign_key_list
    fk_map,           \* result of get_foreign_keys
    column_lines,     \* rendered column lines
    fk_relations      \* relation strings contributed to the summary

loopVars == <<pc, max_iter, gold_sql, gold_exec, pred_exec, step, pred_sql, message, same,
              feedback_history, result, terminal, llm_calls, exec_calls, asked,
              conns, trace>>
cmpVars == <<c_pred, c_gold, c_out>>
fbVars == <<f_pred, f_gold, f_out>>
batchVars == <<bpc, db_path_list, i, tries, attempts, waits, calls, responses, log>>
schemaVars == <<spc, columns_info, table_desc_map, fk_info, fk_map, column_lines, fk_relations>>
vars == <<loopVars, cmpVars, fbVars, batchVars, schemaVars>>

None == "<none>"

\* result before interactive_loop has returned
NoResult ==
    [returned |-> FALSE, pred_sql |-> <<>>, gold_sql |-> <<>>,
     execution_result |-> <<>>, feedback_history |-> <<>>]

\* ------------------------------------------------------------------------
\* Generic sequence helpers
\* ------------------------------------------------------------------------
SeqsUpTo(S, n) == UNION {[1..k -> S] : k \in 0..n}

ToSet(s) == {s[k] : k \in DOMAIN s}

Whitespace == {" ", "\n", "\t"}

\* str.strip(): drop leading and trailing whitespace
RECURSIVE LStrip(_)
LStrip(s) == IF s # <<>> /\ Head(s) \in Whitespace THEN LStrip(Tail(s)) ELSE s

RECURSIVE RStrip(_)
RStrip(s) ==
    IF s # <<>> /\ s[Len(s)] \in Whitespace THEN RStrip(SubSeq(s, 1, Len(s) - 1)) ELSE s

Strip(s) == RStrip(LStrip(s))

\* ------------------------------------------------------------------------
\* execute_and_compare
\* ------------------------------------------------------------------------
\* What cursor.execute + fetchall give for one statement: rows, or an
\* exception with its text.
ExecOk(rows) == [err |-> FALSE, text |-> "", rows |-> rows]
ExecErr(t) == [err |-> TRUE, text |-> t, rows |-> <<>>]
NoRun == ExecOk(<<>>)
NoVerdict == [same |-> FALSE, message |-> <<>>, closed |-> FALSE, ran |-> 0]

\* Faulty variant: results compared as lists (order and multiplicity matter).
execute_and_compare_list(pred_run, gold_run) ==
    IF pred_run.err
    THEN [same |-> FALSE, closed |-> TRUE, ran |-> 1,
          message |-> <<"Predicted SQL Execution Error: ", pred_run.text>>]
    ELSE IF gold_run.err
    THEN [same |-> FALSE, closed |-> TRUE, ran |-> 2,
          message |-> <<"Gold SQL Execution Error: ", gold_run.text>>]
    ELSE IF pred_run.rows = gold_run.rows
    THEN [same |-> TRUE, closed |-> TRUE, ran |-> 2,
          message |-> <<"Execution results match ">>]
    ELSE [same |-> FALSE, closed |-> TRUE, ran |-> 2,
          message |-> <<"Execution results differ ">>]

\* Faulty variant: the gold statement's error path returns without conn.close().
execute_and_compare_leak(pred_run, gold_run) ==
    IF pred_run.err
    THEN [same |-> FALSE, closed |-> TRUE, ran |-> 1,
          message |-> <<"Predicted SQL Execution Error: ", pred_run.text>>]
    ELSE IF gold_run.err
    THEN [same |-> FALSE, closed |-> FALSE, ran |-> 2,
          message |-> <<"Gold SQL Execution Error: ", gold_run.text>>]
    ELSE IF ToSet(pred_run.rows) = ToSet(gold_run.rows)
    THEN [same |-> TRUE, closed |-> TRUE, ran |-> 2,
          message |-> <<"Execution results match ">>]
    ELSE [same |-> FALSE, closed |-> TRUE, ran |-> 2,
          message |-> <<"Execution results differ ">>]

\* pred_run / gold_run: the database's answer to predicted_sql / gold_sql.
\* ran: statements handed to the cursor; closed: conn.close() was reached.
execute_and_compare(pred_run, gold_run) ==
    IF pred_run.err
    THEN [same |-> FALSE, closed |-> TRUE, ran |-> 1,
          message |-> <<"Predicted SQL Execution Error: ", pred_run.text>>]
    ELSE IF gold_run.err
    THEN [same |-> FALSE, closed |-> TRUE, ran |-> 2,
          message |-> <<"Gold SQL Execution Error: ", gold_run.text>>]
    ELSE IF ToSet(pred_run.rows) = ToSet(gold_run.rows)
    THEN [same |-> TRUE, closed |-> TRUE, ran |-> 2,
          message |-> <<"Execution results match ">>]
    ELSE [same |-> FALSE, closed |-> TRUE, ran |-> 2,
          message |-> <<"Execution results differ ">>]

\* ------------------------------------------------------------------------
\* auto_feedback
\* ------------------------------------------------------------------------
\* str.lower() / str.upper() on one chunk
Lower(c) ==
    CASE c = "Where" -> "where"
      [] c = "GROUP BY" -> "group by"
      [] c = "JOIN" -> "join"
      [] c = "SELECT x" -> "select x"
      [] c = "[fence]SQL" -> "[fence]sql"
      [] c = "Maps to" -> "maps to"
      [] c = "Y" -> "y"
      [] c = "S" -> "s" [] c = "E" -> "e" [] c = "L" -> "l"
      [] c = "C" -> "c" [] c = "T" -> "t"
      [] OTHER -> c

Upper(c) ==
    CASE c = "s" -> "S" [] c = "e" -> "E" [] c = "l" -> "L"
      [] c = "c" -> "C" [] c = "t" -> "T" [] c = "y" -> "Y"
      [] c = "r" -> "R" [] c = "o" -> "O" [] c = "i" -> "I" [] c = "d" -> "D"
      [] c = "a" -> "A" [] c = "b" -> "B" [] c = "m" -> "M" [] c = "f" -> "F"
      [] OTHER -> c

LowerText(s) == [k \in DOMAIN s |-> Lower(s[k])]
UpperText(s) == [k \in DOMAIN s |-> Upper(s[k])]

\* kw in text, for a lower-cased text: some chunk holds kw as a substring
HasSub(c, kw) == c = kw \/ (kw = "where" /\ c = "nowhere")
Contains(text, kw) == \E k \in DOMAIN text : HasSub(text[k], kw)

MsgWhere == "You forgot the WHERE condition."
MsgGroupBy == "You missed the GROUP BY clause."
MsgJoin == "You should include a JOIN operation."
MsgGeneric == "The SQL result is incorrect. Please refine conditions or joins."

\* Faulty variant: JOIN tested before GROUP BY.
auto_feedback_join_first(pred, gold) ==
    IF ~Contains(LowerText(pred), "where") /\ Contains(LowerText(gold), "where")
    THEN MsgWhere
    ELSE IF Contains(LowerText(gold), "join") /\ ~Contains(LowerText(pred), "join")
    THEN MsgJoin
    ELSE IF Contains(LowerText(gold), "group by") /\ ~Contains(LowerText(pred), "group by")
    THEN MsgGroupBy
    ELSE MsgGeneric

auto_feedback(pred, gold) ==
    IF ~Contains(LowerText(pred), "where") /\ Contains(LowerText(gold), "where")
    THEN MsgWhere
    ELSE IF Contains(LowerText(gold), "group by") /\ ~Contains(LowerText(pred), "group by")
    THEN MsgGroupBy
    ELSE IF Contains(LowerText(gold), "join") /\ ~Contains(LowerText(pred), "join")
    THEN MsgJoin
    ELSE MsgGeneric

\* ------------------------------------------------------------------------
\* Idle parts: each specification drives one component and leaves the
\* others in their idle state.
\* ------------------------------------------------------------------------
LoopIdle ==
    /\ pc = "idle" /\ max_iter = 0 /\ gold_sql = <<>> /\ gold_exec = NoRun
    /\ pred_exec = NoRun
    /\ step = 0 /\ pred_sql = <<>> /\ message = <<>> /\ same = FALSE
    /\ feedback_history = <<>> /\ result = NoResult /\ terminal = "none"
    /\ llm_calls = 0 /\ exec_calls = 0 /\ asked = 0 /\ conns = 0 /\ trace = <<>>

CmpIdle == c_pred = NoRun /\ c_gold = NoRun /\ c_out = NoVerdict

FbIdle == f_pred = <<>> /\ f_gold = <<>> /\ f_out = None

BatchIdle ==
    /\ bpc = "idle" /\ db_path_list = <<>> /\ i = 0 /\ tries = 0
    /\ attempts = <<>> /\ waits = <<>> /\ calls = <<>>
    /\ responses = <<>> /\ log = <<>>

SchemaIdle ==
    /\ spc = "idle" /\ columns_info = <<>> /\ table_desc_map = <<>>
    /\ fk_info = <<>> /\ fk_map = <<>>
    /\ column_lines = <<>> /\ fk_relations = <<>>

\* ------------------------------------------------------------------------
\* interactive_loop
\* ------------------------------------------------------------------------
MaxIter == 3

Fences == {"[fence]sql", "[fence]"}

\* re.sub of the code-fence markers (case-insensitive), then .strip()
StripFences(text) == Strip(SelectSeq(text, LAMBDA c : Lower(c) \notin Fences))

\* What the chat endpoint may answer.
LlmResponses ==
    { <<"SELECT x">>,
      <<"[fence]SQL", "\n", "SELECT x", "Where", "\n", "[fence]">>,
      <<" ", "SELECT x", "Where", "\n">> }

GoldTexts ==
    { <<"SELECT x">>,
      <<"SELECT x", "GROUP BY">>,
      <<"SELECT x", "Where", "GROUP BY", "JOIN">> }

R11 == <<1, 1>>
R12 == <<1, 2>>
R21 == <<2, 1>>

\* What the database may answer to one statement.
LoopRuns ==
    { ExecErr("no such table: t"),
      ExecOk(<<R11>>), ExecOk(<<R11, R11>>), ExecOk(<<R12, R21>>) }

\* What the user may type at the prompts.
Answers == { <<"y">>, <<" ", "Y", "\n">>, <<"n">>, <<>>, <<"y", "e", "s">> }
ManualFeedback == { "use table t" }

\* The record built by the return statement.
ReturnRecord(p, g, m, h) ==
    [returned |-> TRUE, pred_sql |-> p, gold_sql |-> g,
     execution_result |-> m, feedback_history |-> h]

\* Faulty variant: one iteration too many.
MoreIterations_off_by_one(s, m) == s <= m

\* for step in range(max_iter): after the step with loop value s - 1, is
\* there a step with loop value s?
MoreIterations(s, m) == s < m

\* Faulty variant: a match does not leave the loop.
BreaksOnMatch_never(sm) == FALSE

\* if same: ... break
BreaksOnMatch(sm) == sm

\* Faulty variant: no feedback is recorded after the last permitted step.
AppendFeedback_skip_last(h, fb, s, m) == IF s + 1 < m THEN Append(h, fb) ELSE h

\* Faulty variant: the history is replaced by the newest entry.
AppendFeedback_overwrite(h, fb, s, m) == <<fb>>

\* feedback_history.append(feedback)
AppendFeedback(h, fb, s, m) == Append(h, fb)

\* feedback_mode == "y"
IsManual(answer) == LowerText(Strip(answer)) = <<"y">>

LoopInit ==
    /\ pc = "drafting"
    /\ max_iter \in 1..MaxIter
    /\ gold_sql \in GoldTexts
    /\ gold_exec \in LoopRuns
    /\ pred_exec = NoRun
    /\ step = 0 /\ pred_sql = <<>> /\ message = <<>> /\ same = FALSE
    /\ feedback_history = <<>> /\ result = NoResult /\ terminal = "none"
    /\ llm_calls = 0 /\ exec_calls = 0 /\ asked = 0 /\ conns = 0 /\ trace = <<>>
    /\ CmpIdle /\ FbIdle /\ BatchIdle /\ SchemaIdle

\* One pass through lines 97-119: prompt, call_llm, fence stripping,
\* execute_and_compare, log, and the break on a match.
Draft ==
    /\ pc = "drafting"
    /\ \E raw \in LlmResponses, pred_run \in LoopRuns :
         LET p == StripFences(raw)
             v == execute_and_compare(pred_run, gold_exec)
         IN  /\ llm_calls' = llm_calls + 1
             /\ pred_sql' = p
             /\ pred_exec' = pred_run
             /\ exec_calls' = exec_calls + 1
             /\ conns' = conns + 1 - (IF v.closed THEN 1 ELSE 0)
             /\ same' = v.same
             /\ message' = v.message
             /\ trace' = Append(trace, [message |-> v.message, same |-> v.same])
             /\ IF BreaksOnMatch(v.same)
                THEN /\ pc' = "done"
                     /\ terminal' = "Matched"
                     /\ result' = ReturnRecord(p, gold_sql, v.message, feedback_history)
                ELSE /\ pc' = "feedback"
                     /\ UNCHANGED <<terminal, result>>
    /\ UNCHANGED <<max_iter, gold_sql, gold_exec, step, feedback_history, asked>>
    /\ UNCHANGED <<cmpVars, fbVars, batchVars, schemaVars>>

\* call_llm raises: nothing in interactive_loop catches it.
DraftRaises ==
    /\ pc = "drafting"
    /\ llm_calls' = llm_calls + 1
    /\ pc' = "crashed"
    /\ UNCHANGED <<max_iter, gold_sql, gold_exec, pred_exec, step, pred_sql, message, same,
                   feedback_history, result, terminal, exec_calls, asked, conns, trace>>
    /\ UNCHANGED <<cmpVars, fbVars, batchVars, schemaVars>>

\* Lines 122-130, then the loop header and, when the range is used up,
\* the return.
CollectFeedback ==
    /\ pc = "feedback"
    /\ \E answer \in Answers, typed \in ManualFeedback :
         LET feedback == IF IsManual(answer) THEN typed
                         ELSE auto_feedback(pred_sql, gold_sql)
             h == AppendFeedback(feedback_history, feedback, step, max_iter)
         IN  /\ asked' = asked + 1
             /\ feedback_history' = h
             /\ IF MoreIterations(step + 1, max_iter)
                THEN /\ step' = step + 1
                     /\ pc' = "drafting"
                     /\ UNCHANGED <<terminal, result>>
                ELSE /\ step' = step
                     /\ pc' = "done"
                     /\ terminal' = "Exhausted"
                     /\ result' = ReturnRecord(pred_sql, gold_sql, message, h)
    /\ UNCHANGED <<max_iter, gold_sql, gold_exec, pred_exec, pred_sql, message, same,
                   llm_calls, exec_calls, conns, trace>>
    /\ UNCHANGED <<cmpVars, fbVars, batchVars, schemaVars>>

LoopNext == Draft \/ DraftRaises \/ CollectFeedback

LoopSpec == LoopInit /\ [][LoopNext]_vars

\* ---- claims about interactive_loop -------------------------------------
NeverMatched == \A k \in DOMAIN trace : ~trace[k].same

\* C1: for every max_iter >= 1 the loop makes at most max_iter model calls
\* (and asks for feedback at most max_iter times, so it stops); a run that
\* returns without any matching step ends Exhausted and returns the last
\* step's prediction, the last step's comparison message and the whole
\* feedback history.
C1_BoundedAndExhausted ==
    /\ llm_calls <= max_iter
    /\ asked <= max_iter
    /\ Len(trace) <= llm_calls
    /\ (pc = "done" => ~ENABLED LoopNext)
    /\ (pc = "done" /\ NeverMatched) =>
          /\ terminal = "Exhausted"
          /\ llm_calls = max_iter
          /\ result.returned
          /\ result.pred_sql = pred_sql
          /\ result.execution_result = trace[Len(trace)].message
          /\ result.feedback_history = feedback_history
          /\ Len(result.feedback_history) = asked

C1_Witness ==
    /\ pc = "done" /\ terminal = "Exhausted" /\ max_iter = 3 /\ llm_calls = 3
    /\ result.feedback_history = <<"use table t", MsgWhere, MsgGroupBy>>

RowsEqualAsSets(a, b) == ~a.err /\ ~b.err /\ ToSet(a.rows) = ToSet(b.rows)

\* C2: when the first step's predicted rows and the gold rows are the same
\* set, the loop is over after that one step: one model call, one execution,
\* state Matched, no feedback prompt, an empty feedback history returned.
C2_MatchOnFirstStep ==
    (exec_calls = 1 /\ RowsEqualAsSets(pred_exec, gold_exec)) =>
        /\ pc = "done" /\ terminal = "Matched"
        /\ llm_calls = 1 /\ asked = 0
        /\ feedback_history = <<>>
        /\ result.returned /\ result.feedback_history = <<>>
        /\ result.pred_sql = pred_sql
        /\ ~ENABLED LoopNext

C2_Witness ==
    /\ exec_calls = 1 /\ terminal = "Matched" /\ max_iter = 3
    /\ pred_exec = ExecOk(<<R11, R11>>) /\ gold_exec = ExecOk(<<R11>>)

\* C3 as stated: a run that never matches ends Exhausted with a feedback
\* history of length max_iter - 1.
C3_Original ==
    (pc = "done" /\ NeverMatched) =>
        (terminal = "Exhausted" /\ Len(result.feedback_history) = max_iter - 1)

\* C3 amended: a run that never matches ends Exhausted with a feedback
\* history of length max_iter (feedback is collected after the last step too).
C3_ExhaustedHistoryLength ==
    /\ (pc = "done" /\ NeverMatched) =>
          (terminal = "Exhausted" /\ Len(result.feedback_history) = max_iter)
    /\ terminal = "Exhausted" =>
          (NeverMatched /\ Len(trace) = max_iter /\ Len(feedback_history) = max_iter)

C3_Witness ==
    /\ pc = "done" /\ terminal = "Exhausted" /\ max_iter = 2
    /\ Len(result.feedback_history) = 2 /\ Len(trace) = 2

ExecutionFailed == exec_calls >= 1 /\ (pred_exec.err \/ gold_exec.err)

\* C5: an exception from the predicted or the gold statement does not end
\* the loop: the verdict is non-match, the message carries the exception
\* text (the predicted statement's when both fail), no connection stays
\* open, and the loop asks for feedback and drafts again while steps remain.
C5_ExecutionErrorsAbsorbed ==
    /\ [](ExecutionFailed =>
            /\ ~same
            /\ message = (IF pred_exec.err
                          THEN <<"Predicted SQL Execution Error: ", pred_exec.text>>
                          ELSE <<"Gold SQL Execution Error: ", gold_exec.text>>)
            /\ terminal # "Matched"
            /\ (pc = "crashed" => llm_calls = exec_calls + 1)
            /\ (llm_calls = exec_calls => pc \in {"feedback", "drafting", "done"}))
    /\ [](conns = 0)
    /\ [][(ExecutionFailed /\ pc = "feedback" /\ step + 1 < max_iter) =>
            (pc' = "drafting" /\ Len(feedback_history') = Len(feedback_history) + 1)]_vars
    /\ [][(pc = "drafting" /\ exec_calls' = exec_calls + 1
           /\ (pred_exec'.err \/ gold_exec.err)) => pc' = "feedback"]_vars

C5_Witness ==
    /\ pc = "drafting" /\ step = 1 /\ gold_exec.err /\ ~pred_exec.err
    /\ message = <<"Gold SQL Execution Error: ", "no such table: t">>
    /\ Len(feedback_history) = 1

\* ------------------------------------------------------------------------
\* execute_and_compare applied to arbitrary results
\* ------------------------------------------------------------------------
MaxRows == 2

Rows == {R11, R12, R21}

CmpRuns ==
    {ExecErr("near FROM: syntax error"), ExecErr("no such table: t")}
        \cup {ExecOk(rs) : rs \in SeqsUpTo(Rows, MaxRows)}

CmpInit ==
    /\ c_pred \in CmpRuns
    /\ c_gold \in CmpRuns
    /\ c_out = NoVerdict
    /\ LoopIdle /\ FbIdle /\ BatchIdle /\ SchemaIdle

Compare ==
    /\ c_out.ran = 0
    /\ c_out' = execute_and_compare(c_pred, c_gold)
    /\ UNCHANGED <<c_pred, c_gold, loopVars, fbVars, batchVars, schemaVars>>

CmpNext == Compare

CmpSpec == CmpInit /\ [][CmpNext]_vars

\* every row of a occurs in b (however often, wherever)
RowsWithin(a, b) == \A k \in DOMAIN a : \E j \in DOMAIN b : a[k] = b[j]

\* C4: when both statements ran without error, the verdict is a match
\* exactly when the two results hold the same distinct rows; order and
\* repetition of rows do not matter, different distinct rows never match.
C4_SetSemantics ==
    (c_out.ran = 2 /\ ~c_pred.err /\ ~c_gold.err) =>
        /\ c_out.same <=>
              (RowsWithin(c_pred.rows, c_gold.rows) /\ RowsWithin(c_gold.rows, c_pred.rows))
        /\ (c_pred.rows = <<R12, R21>> /\ c_gold.rows = <<R21, R12>>) => c_out.same
        /\ (c_pred.rows = <<R11, R11>> /\ c_gold.rows = <<R11>>) => c_out.same
        /\ c_out.message = (IF c_out.same THEN <<"Execution results match ">>
                            ELSE <<"Execution results differ ">>)

C4_Witness ==
    /\ c_out.ran = 2 /\ c_out.same
    /\ c_pred.rows = <<R12, R21>> /\ c_gold.rows = <<R21, R12>>

\* ------------------------------------------------------------------------
\* auto_feedback applied to arbitrary texts
\* ------------------------------------------------------------------------
MaxChunks == 3

FbChunks == {"Where", "GROUP BY", "join", "nowhere"}

FbInit ==
    /\ f_pred \in SeqsUpTo(FbChunks, MaxChunks)
    /\ f_gold \in SeqsUpTo(FbChunks, MaxChunks)
    /\ f_out = None
    /\ LoopIdle /\ CmpIdle /\ BatchIdle /\ SchemaIdle

Feedback ==
    /\ f_out = None
    /\ f_out' = auto_feedback(f_pred, f_gold)
    /\ UNCHANGED <<f_pred, f_gold, loopVars, cmpVars, batchVars, schemaVars>>

FbNext == Feedback

FbSpec == FbInit /\ [][FbNext]_vars

\* keyword kw is missing: the gold text has it, the prediction has not
Missing(kw) ==
    Contains(LowerText(f_gold), kw) /\ ~Contains(LowerText(f_pred), kw)

\* C9: the message is the WHERE one iff WHERE is missing; else the GROUP BY
\* one iff GROUP BY is missing; else the JOIN one iff JOIN is missing; else
\* the generic one.
C9_FeedbackPriority ==
    f_out # None =>
        /\ f_out = MsgWhere <=> Missing("where")
        /\ f_out = MsgGroupBy <=> (~Missing("where") /\ Missing("group by"))
        /\ f_out = MsgJoin <=>
              (~Missing("where") /\ ~Missing("group by") /\ Missing("join"))
        /\ f_out = MsgGeneric <=>
              (~Missing("where") /\ ~Missing("group by") /\ ~Missing("join"))

C9_Witness ==
    /\ f_gold = <<"Where", "GROUP BY", "join">>
    /\ f_pred = <<"nowhere", "join">>
    /\ f_out = MsgGroupBy

\* ------------------------------------------------------------------------
\* connect_gpt (backoff.on_exception policy) and collect_response_from_gpt
\* ------------------------------------------------------------------------
MaxBatch == 2

MaxTries == 3
Interval == 15

Txt_id_FROM_t == <<"i", "d", " ", "F", "R", "O", "M", " ", "t">>
Txt_SELECT_star == <<"S", "E", "L", "E", "C", "T", " ", "*", " ", "F", "R", "O", "M", " ", "t">>
Txt_select_1 == <<" ", "s", "e", "l", "e", "c", "t", " ", "1", "\n">>
Txt_sp_id == <<" ", "i", "d", " ", "\n">>

\* Texts the completion endpoint may return.
RawTexts == {Txt_id_FROM_t, Txt_SELECT_star, Txt_select_1, Txt_sp_id, <<>>}

Returned(t) == [ok |-> TRUE, cls |-> None, text |-> t]
Raised(c, t) == [ok |-> FALSE, cls |-> c, text |-> t]

\* Exceptions one endpoint attempt may raise (class, str(e)).
Failures ==
    { Raised("RateLimitError", <<"4", "2", "9">>),
      Raised("APITimeoutError", <<"t", "/", "o", " ">>),
      Raised("Exception", <<"b", "a", "d">>) }

EndpointOutcomes == {Returned(t) : t \in RawTexts} \cup Failures

DbPaths ==
    { <<"db", "/", "a", "/", "a", ".sqlite">>,
      <<"db", "/", "b_1", "/", "b_1", ".sqlite">> }

\* os.path.basename
RECURSIVE Basename(_)
Basename(path) ==
    IF \E k \in DOMAIN path : path[k] = "/" THEN Basename(Tail(path)) ELSE path

\* os.path.basename(path).replace('.sqlite', '')
DbId(path) == SelectSeq(Basename(path), LAMBDA c : c # ".sqlite")

Suffix(db_id) == <<"\t", "----- bird -----", "\t">> \o db_id

SELECT == <<"S", "E", "L", "E", "C", "T">>
ErrorPrefix == <<"e", "r", "r", "o", "r", ":">>

\* str.startswith
StartsWith(s, prefix) ==
    Len(s) >= Len(prefix) /\ SubSeq(s, 1, Len(prefix)) = prefix

\* Faulty variant: only rate-limit errors are retried.
quota_giveup_inverted(e) == e.cls # "RateLimitError"

\* giveup predicate of the retry policy
quota_giveup(e) == e.cls = "RateLimitError"

\* lines 274-275: prefix SELECT unless already there, strip, add the tag
Normalize(sql_text, db_id) ==
    LET sql == IF ~StartsWith(UpperText(Strip(sql_text)), SELECT)
               THEN SELECT \o sql_text
               ELSE sql_text
    IN  Strip(sql) \o Suffix(db_id)

\* Faulty variant: only API errors are caught by the batch runner.
Catches_api_only(e) == e.cls \in {"APIError", "RateLimitError", "APITimeoutError"}

\* except Exception as e
Catches(e) == e.cls \in {"APIError", "RateLimitError", "APITimeoutError", "Exception"}

BatchInit ==
    /\ bpc = "item"
    /\ db_path_list \in SeqsUpTo(DbPaths, MaxBatch)
    /\ i = 0 /\ tries = 0 /\ attempts = <<>> /\ waits = <<>> /\ calls = <<>>
    /\ responses = <<>> /\ log = <<>>
    /\ LoopIdle /\ CmpIdle /\ FbIdle /\ SchemaIdle

\* Loop header and lines 260-270: the next item's prompt is built and
\* connect_gpt is entered.
BeginItem ==
    /\ bpc = "item"
    /\ i < Len(db_path_list)
    /\ bpc' = "calling"
    /\ tries' = 0 /\ attempts' = <<>> /\ waits' = <<>>
    /\ UNCHANGED <<db_path_list, i, calls, responses, log>>
    /\ UNCHANGED <<loopVars, cmpVars, fbVars, schemaVars>>

\* The loop is used up: responses is returned.
ReturnResponses ==
    /\ bpc = "item"
    /\ i = Len(db_path_list)
    /\ bpc' = "done"
    /\ UNCHANGED <<db_path_list, i, tries, attempts, waits, calls, responses, log>>
    /\ UNCHANGED <<loopVars, cmpVars, fbVars, schemaVars>>

\* Lines 271-284 once connect_gpt has ended with `end`.
FinishItem(end) ==
    IF end.ok \/ Catches(end)
    THEN LET sql_text == IF end.ok THEN end.text ELSE ErrorPrefix \o end.text
             db_id == DbId(db_path_list[i + 1])
         IN  /\ responses' = Append(responses, Normalize(sql_text, db_id))
             /\ log' = Append(log, [q |-> i, db |-> db_id, response |-> Strip(sql_text)])
             /\ i' = i + 1
             /\ bpc' = "item"
    ELSE /\ bpc' = "aborted"
         /\ UNCHANGED <<responses, log, i>>

\* One attempt of connect_gpt: the endpoint returns or raises; the retry
\* policy gives up, or sleeps and tries again.
Attempt ==
    /\ bpc = "calling"
    /\ \E r \in EndpointOutcomes :
         /\ tries' = tries + 1
         /\ attempts' = Append(attempts, r)
         /\ IF r.ok
            THEN /\ calls' = Append(calls, r)
                 /\ waits' = waits
                 /\ FinishItem(r)
            ELSE IF quota_giveup(r) \/ tries + 1 = MaxTries
            THEN /\ calls' = Append(calls, r)
                 /\ waits' = waits
                 /\ FinishItem(r)
            ELSE /\ waits' = Append(waits, Interval)
                 /\ UNCHANGED <<bpc, calls, responses, log, i>>
    /\ UNCHANGED db_path_list
    /\ UNCHANGED <<loopVars, cmpVars, fbVars, schemaVars>>

BatchNext == BeginItem \/ Attempt \/ ReturnResponses

BatchSpec == BatchInit /\ [][BatchNext]_vars

\* ---- claims about the batch runner and the retry policy ----------------
BatchShape ==
    /\ bpc # "aborted"
    /\ Len(responses) = i /\ Len(log) = i /\ i <= Len(db_path_list)
    /\ bpc \in {"item", "done"} => Len(calls) = i
    /\ bpc = "done" => Len(responses) = Len(db_path_list)
    /\ \A k \in DOMAIN responses :
          /\ StartsWith(UpperText(responses[k]), SELECT)
          /\ SubSeq(responses[k], Len(responses[k]) - Len(Suffix(DbId(db_path_list[k]))) + 1,
                    Len(responses[k])) = Suffix(DbId(db_path_list[k]))
          /\ log[k].q = k - 1 /\ log[k].db = DbId(db_path_list[k])

\* C6 as stated: every item yields one output tagged with its database id
\* and one log entry, and an item whose completion call raised yields
\* error:<exception text> followed by the suffix tag.
C6_Original ==
    /\ BatchShape
    /\ \A k \in DOMAIN responses :
          (k \in DOMAIN calls /\ ~calls[k].ok) =>
              responses[k] = ErrorPrefix \o calls[k].text \o Suffix(DbId(db_path_list[k]))

\* C6 amended: as stated, except that the output of a failed item is the
\* token SELECT directly followed by error:<exception text> (trailing
\* whitespace removed) and then the suffix tag.
C6_BatchNeverAborts ==
    /\ BatchShape
    /\ \A k \in DOMAIN responses :
          (k \in DOMAIN calls /\ ~calls[k].ok) =>
              /\ responses[k] = SELECT \o ErrorPrefix \o RStrip(calls[k].text)
                                    \o Suffix(DbId(db_path_list[k]))
              /\ log[k].response = ErrorPrefix \o RStrip(calls[k].text)

C6_Witness ==
    /\ bpc = "done" /\ Len(db_path_list) = 2
    /\ calls[1] = Raised("APITimeoutError", <<"t", "/", "o", " ">>)
    /\ calls[2].ok
    /\ DbId(db_path_list[1]) = <<"b_1">> /\ DbId(db_path_list[2]) = <<"a">>

BeginsWithSelect(t) == StartsWith(UpperText(Strip(t)), SELECT)

\* C7: raw text that does not begin with SELECT comes out as SELECT, one
\* space, the raw text, the suffix tag; raw text that begins with SELECT
\* comes out as the raw text and the suffix tag.  (Read up to surrounding
\* whitespace of the raw text, which the code trims.)
C7_Original ==
    \A k \in DOMAIN responses :
        (k \in DOMAIN calls /\ calls[k].ok) =>
            responses[k] =
                Strip(IF BeginsWithSelect(calls[k].text)
                      THEN calls[k].text
                      ELSE SELECT \o <<" ">> \o LStrip(calls[k].text))
                    \o Suffix(DbId(db_path_list[k]))

MaxFk == 3

table_name == "t"

\* PRAGMA table_info rows (name, type, pk)
Col(n, ty, pk) == [name |-> n, type |-> ty, pk |-> pk]

Tables ==
    { <<>>,
      <<Col("c", "INTEGER", TRUE)>>,
      <<Col("c", "", FALSE), Col("d", "TEXT", FALSE)>> }

\* PRAGMA foreign_key_list rows: (table, from, to) of (id, seq, table, from, to, ...)
FkRows == [table : {"a", "b"}, from : {"c", "C", "d"}, to : {"x"}]
              \cup [table : {"a"}, from : {"c"}, to : {"y"}]

DescMaps ==
    { <<>>,
      [n \in {"c"} |-> <<" ", "owner", ",", " ", "Maps to", " ", "a(x)">>],
      [n \in {"c", "d"} |-> <<"the", " ", "\n", "key">>] }

\* dict assignment m[k] = v
Put(m, k, v) == [x \in DOMAIN m \cup {k} |-> IF x = k THEN v ELSE m[x]]

RECURSIVE FkFold(_, _)
FkFold(rows, m) ==
    IF rows = <<>> THEN m
    ELSE FkFold(Tail(rows), Put(m, Head(rows).from, <<Head(rows).table, Head(rows).to>>))

RECURSIVE FkFoldFirst(_, _)
FkFoldFirst(rows, m) ==
    IF rows = <<>> THEN m
    ELSE FkFoldFirst(Tail(rows),
                     IF Head(rows).from \in DOMAIN m THEN m
                     ELSE Put(m, Head(rows).from, <<Head(rows).table, Head(rows).to>>))

\* Faulty variant: a column already in the map keeps its target.
get_foreign_keys_keep_first(rows) == FkFoldFirst(rows, <<>>)

\* for row in fk_info: fk_map[from_col] = (ref_table, ref_column)
get_foreign_keys(rows) == FkFold(rows, <<>>)

\* " ".join(description.split()), after .strip()
RECURSIVE CollapseWs(_)
CollapseWs(d) ==
    LET t == LStrip(d)
    IN  IF t = <<>> THEN <<>>
        ELSE IF Len(t) > 1 /\ t[2] \in Whitespace
        THEN IF LStrip(Tail(t)) = <<>> THEN <<t[1]>>
             ELSE <<t[1], " ">> \o CollapseWs(Tail(t))
        ELSE <<t[1]>> \o CollapseWs(Tail(t))

\* description[:maps_idx].rstrip(", ") when the phrase occurs, else description
RECURSIVE RStripCommaSpace(_)
RStripCommaSpace(d) ==
    IF d # <<>> /\ d[Len(d)] \in {",", " "}
    THEN RStripCommaSpace(SubSeq(d, 1, Len(d) - 1)) ELSE d

CutMapsTo(d) ==
    LET low == LowerText(d)
        hits == {k \in DOMAIN d : low[k] = "maps to"}
    IN  IF hits = {} THEN d
        ELSE RStripCommaSpace(SubSeq(d, 1, (CHOOSE k \in hits : \A j \in hits : k <= j) - 1))

\* lines 141-173 for the column at position idx
ColumnLine(idx, cols, descs, fks) ==
    LET col == cols[idx]
        col_type == IF col.type = "" THEN "UNKNOWN" ELSE col.type
        has_fk == col.name \in DOMAIN fks
        d0 == IF Lower(col.name) \in DOMAIN descs
              THEN CollapseWs(descs[Lower(col.name)]) ELSE <<>>
        description == IF d0 # <<>> /\ has_fk THEN CutMapsTo(d0) ELSE d0
    IN  <<"  (", col.name, ": ", col_type>>
            \o (IF col.pk THEN <<", ", "Primary Key">> ELSE <<>>)
            \o (IF description # <<>> THEN <<", ">> \o description ELSE <<>>)
            \o (IF has_fk
                THEN <<"\n   Maps to ", fks[col.name][1], "(", fks[col.name][2], ")">>
                ELSE <<>>)
            \o <<")">>
            \o (IF idx < Len(cols) THEN <<",">> ELSE <<>>)

\* f"{table_name}.{col_name} = {fk_info[0]}.{fk_info[1]}"
Relation(col_name, fk) == <<table_name, ".", col_name, " = ", fk[1], ".", fk[2]>>

RECURSIVE Relations(_, _)
Relations(cols, fks) ==
    IF cols = <<>> THEN <<>>
    ELSE (IF Head(cols).name \in DOMAIN fks
          THEN <<Relation(Head(cols).name, fks[Head(cols).name])>> ELSE <<>>)
             \o Relations(Tail(cols), fks)

SchemaInit ==
    /\ spc = "ready"
    /\ columns_info \in Tables
    /\ table_desc_map \in DescMaps
    /\ fk_info \in SeqsUpTo(FkRows, MaxFk)
    /\ fk_map = <<>> /\ column_lines = <<>> /\ fk_relations = <<>>
    /\ LoopIdle /\ CmpIdle /\ FbIdle /\ BatchIdle

\* build_table_prompt for the table: nothing for a table without columns,
\* else get_foreign_keys and one line per column.
build_table_prompt ==
    /\ spc = "ready"
    /\ spc' = "built"
    /\ IF columns_info = <<>>
       THEN UNCHANGED <<fk_map, column_lines, fk_relations>>
       ELSE LET fks == get_foreign_keys(fk_info)
            IN  /\ fk_map' = fks
                /\ column_lines' =
                       [k \in DOMAIN columns_info |->
                           ColumnLine(k, columns_info, table_desc_map, fks)]
                /\ fk_relations' = fk_relations \o Relations(columns_info, fks)
    /\ UNCHANGED <<columns_info, table_desc_map, fk_info>>
    /\ UNCHANGED <<loopVars, cmpVars, fbVars, batchVars>>

SchemaNext == build_table_prompt

SchemaSpec == SchemaInit /\ [][SchemaNext]_vars

\* ---- claims about the foreign-key map ----------------------------------
RowsFrom(c) == {k \in DOMAIN fk_info : fk_info[k].from = c}
FirstRow(c) == CHOOSE k \in RowsFrom(c) : \A j \in RowsFrom(c) : k <= j
LastRow(c) == CHOOSE k \in RowsFrom(c) : \A j \in RowsFrom(c) : k >= j
Target(k) == <<fk_info[k].table, fk_info[k].to>>

\* s occurs in line as a run of consecutive chunks
Occurs(s, line) ==
    \E k \in 1..(Len(line) - Len(s) + 1) : SubSeq(line, k, k + Len(s) - 1) = s

MapsToLine(fk) == <<"\n   Maps to ", fk[1], "(", fk[2], ")">>

\* the column at position idx is annotated with target fk and nothing else
AnnotatedWith(idx, fk) ==
    /\ Occurs(MapsToLine(fk), column_lines[idx])
    /\ Cardinality({k \in DOMAIN column_lines[idx] :
                       column_lines[idx][k] = "\n   Maps to "}) = 1
    /\ {r \in ToSet(fk_relations) : r[3] = columns_info[idx].name}
           = {Relation(columns_info[idx].name, fk)}

Mismatches == Cardinality({k \in DOMAIN trace : ~trace[k].same})

\* C11: the feedback history holds one entry per non-matching step executed
\* so far, in step order: after a mismatch exactly one entry is appended at
\* the end (also after the last permitted step), a matching step adds none,
\* and entries already there are never removed or changed.  On return the
\* number of model calls is len(feedback_history) + 1 when Matched and
\* len(feedback_history) when Exhausted.
C11_OneEntryPerMismatch ==
    /\ [](/\ pc \in {"drafting", "done", "crashed"} =>
                Len(feedback_history) = Mismatches
          /\ pc = "feedback" =>
                (~trace[Len(trace)].same /\ Len(feedback_history) = Mismatches - 1)
          /\ pc = "done" =>
                /\ result.feedback_history = feedback_history
                /\ terminal = "Matched" =>
                      (trace[Len(trace)].same
                       /\ llm_calls = Len(result.feedback_history) + 1)
                /\ terminal = "Exhausted" =>
                      llm_calls = Len(result.feedback_history))
    /\ [][\/ feedback_history' = feedback_history
          \/ /\ pc = "feedback" /\ ~same
             /\ Len(feedback_history') = Len(feedback_history) + 1
             /\ SubSeq(feedback_history', 1, Len(feedback_history)) = feedback_history
             /\ feedback_history'[Len(feedback_history')]
                    \in ManualFeedback \cup {auto_feedback(pred_sql, gold_sql)}]_vars
    /\ [][pc = "feedback" => feedback_history' # feedback_history]_vars
    /\ [][pc = "drafting" => feedback_history' = feedback_history]_vars

C11_Witness ==
    /\ pc = "done" /\ terminal = "Matched" /\ max_iter = 3
    /\ llm_calls = 3 /\ Mismatches = 2
    /\ result.feedback_history = <<MsgWhere, "use table t">>

====
